---- MODULE Spec2Model ----
(***************************************************************************)
(* Model of the branch selector of dirtygit (src/main.py): the controller  *)
(* BranchSelectorUI, its key handlers, the background tasks that supervise *)
(* a git child process, and the repository the git commands act on.        *)
(*                                                                         *)
(* One step of the model is one callback of the event loop: a key handler  *)
(* run to completion, or the part of a coroutine between two awaits.  The  *)
(* child process and the repository are the environment.                   *)
(***************************************************************************)
EXTENDS Integers, Sequences, FiniteSets, TLC

\* Bounds of the model: the size of a session, counted as two for each
\* command started and one for each character a child process writes, each
\* line echoed from the input region and each failing branch enumeration.
MaxBudget == 5
\* the size of a session of commands alone (SpecCommands)
MaxCommandsBudget == 8

None == "None"
NoProc == 0          \* self.proc is None
NL == "\n"
Chars == {"a", NL}
Texts == {"yes"}
AllNames == <<"main", "old", "feature">>
Unborn == ""         \* HEAD names no commit: rev-parse fails

VARIABLES
    branches,               \* self.branches: sequence of <<name, is_current>>
    selected,               \* self.selected, 0-based
    processing,             \* self.processing
    proc,                   \* self.proc: index in tasks of the handle, or NoProc
    status,                 \* self.status
    awaiting_force_branch,  \* self.awaiting_force_branch
    log,                    \* self.log_area.text, as its sequence of lines
    focus,                  \* focused element: "list" or "input"
    quit_on_switch,         \* self.quit_on_switch
    exited,                 \* the application has exited (app.exit())
    tasks,                  \* the _run_git_async tasks, in order of creation
    sends,                  \* the _send_to_proc tasks scheduled and not yet run
    repo,                   \* the git repository: [names, head]
    refreshed,              \* the _refresh_branches calls of the last step
    budget                  \* the size this session is limited to

vars == <<branches, selected, processing, proc, status, awaiting_force_branch,
          log, focus, quit_on_switch, exited, tasks, sends, repo, refreshed, budget>>

----------------------------------------------------------------------------
\* Values

SwitchArgs(b) == <<"git", "switch", b>>
DeleteArgs(b) == <<"git", "branch", "-d", b>>
ForceArgs(b) == <<"git", "branch", "-D", b>>

IsSwitch(args) == Len(args) = 3 /\ args[2] = "switch"
IsDelete(args) == Len(args) = 4 /\ args[3] = "-d"
IsForce(args) == Len(args) = 4 /\ args[3] = "-D"
Target(args) == args[Len(args)]

StatusInitial == [k |-> "Initial", a |-> <<>>, code |-> 0]
StatusRunning(args) == [k |-> "Running", a |-> args, code |-> 0]
StatusDone == [k |-> "Done", a |-> <<>>, code |-> 0]
StatusExited(c) == [k |-> "Exited", a |-> <<>>, code |-> c]
StatusSwitched == [k |-> "Switched", a |-> <<>>, code |-> 0]
StatusDeleteFailed(b) == [k |-> "DeleteFailed", a |-> <<b>>, code |-> 0]
StatusCanceled == [k |-> "Canceled", a |-> <<>>, code |-> 0]

LogCmd(args) == [k |-> "$", id |-> 0, text |-> args]
LogOut(i, line) == [k |-> "out", id |-> i, text |-> line]
LogForce(b) == [k |-> "Force deleting", id |-> 0, text |-> <<b>>]
LogError == [k |-> "[error]", id |-> 0, text |-> <<>>]
LogInput(t) == [k |-> ">", id |-> 0, text |-> <<t>>]

SeqSet(s) == {s[j] : j \in 1..Len(s)}

RECURSIVE Remove(_, _)
Remove(s, x) ==
    IF s = <<>> THEN <<>>
    ELSE IF Head(s) = x THEN Remove(Tail(s), x)
    ELSE <<Head(s)>> \o Remove(Tail(s), x)

----------------------------------------------------------------------------
\* list_branches on repository r: the two queries and the merge.  q is the
\* outcome of the enumeration: "ok", or "fail" (for-each-ref exits non-zero).

Queries == {"ok", "fail"}

RECURSIVE Mark(_, _)
Mark(lines, current) ==
    IF lines = <<>> THEN <<>>
    ELSE IF Head(lines) = "" THEN Mark(Tail(lines), current)
    ELSE <<<<Head(lines), Head(lines) = current>>>> \o Mark(Tail(lines), current)

\* rev-parse --abbrev-ref HEAD: <<code, output>>
RevParseHead(r) == IF r.head = Unborn THEN <<128, "fatal">> ELSE <<0, r.head>>

\* for-each-ref refs/heads: <<code, output lines>>
ForEachRef(r, q) == IF q = "fail" THEN <<128, <<"fatal">>>> ELSE <<0, r.names>>

\* the branches, or the RuntimeError raised
list_branches(r, q) ==
    LET code == RevParseHead(r)[1]
        current == IF code = 0 THEN RevParseHead(r)[2] ELSE ""
    IN IF ForEachRef(r, q)[1] # 0
       THEN [raised |-> TRUE, value |-> <<>>]
       ELSE [raised |-> FALSE, value |-> Mark(ForEachRef(r, q)[2], current)]

\* _append_log_sync replacing the text by the line
AppendLog_Replace(text, line) == <<line>>

\* _append_log / _append_log_sync: one more line at the end of the text.
AppendLog(text, line) == Append(text, line)

\* the first index of old_name in bs, 0-based; 0 when absent
RECURSIVE IndexOf(_, _, _)
IndexOf(bs, name, j) ==
    IF j > Len(bs) THEN 0
    ELSE IF bs[j][1] = name THEN j - 1
    ELSE IndexOf(bs, name, j + 1)

\* _refresh_branches resetting the cursor before the query
RefreshBranches_ResetFirst(st, q) ==
    LET old_name == IF st.branches # <<>> THEN st.branches[st.selected + 1][1] ELSE None
        listed == list_branches(repo, q)
        new == IF listed.raised
               THEN [st EXCEPT !.selected = 0, !.log = AppendLog(st.log, LogError)]
               ELSE LET bs == listed.value IN
                    [st EXCEPT !.branches = bs,
                               !.selected = IF old_name # None
                                            THEN IndexOf(bs, old_name, 1) ELSE 0]
    IN [new EXCEPT !.calls = Append(st.calls,
            [q |-> q, before |-> [branches |-> st.branches, selected |-> st.selected,
                                  log |-> st.log],
             after |-> [branches |-> new.branches, selected |-> new.selected,
                        log |-> new.log]])]

\* _refresh_branches keeping the cursor at its row when the name is gone
RefreshBranches_KeepRow(st, q) ==
    LET old_name == IF st.branches # <<>> THEN st.branches[st.selected + 1][1] ELSE None
        listed == list_branches(repo, q)
        new == IF listed.raised
               THEN [st EXCEPT !.log = AppendLog(st.log, LogError)]
               ELSE LET bs == listed.value IN
                    [st EXCEPT !.branches = bs,
                               !.selected = IF old_name # None
                                               /\ old_name \in {bs[j][1] : j \in 1..Len(bs)}
                                            THEN IndexOf(bs, old_name, 1)
                                            ELSE IF st.selected < Len(bs) THEN st.selected
                                            ELSE IF bs = <<>> THEN 0 ELSE Len(bs) - 1]
    IN [new EXCEPT !.calls = Append(st.calls,
            [q |-> q, before |-> [branches |-> st.branches, selected |-> st.selected,
                                  log |-> st.log],
             after |-> [branches |-> new.branches, selected |-> new.selected,
                        log |-> new.log]])]

\* _refresh_branches counting the positions of the new list from one
RefreshBranches_FromOne(st, q) ==
    LET old_name == IF st.branches # <<>> THEN st.branches[st.selected + 1][1] ELSE None
        listed == list_branches(repo, q)
        new == IF listed.raised
               THEN [st EXCEPT !.log = AppendLog(st.log, LogError)]
               ELSE LET bs == listed.value IN
                    [st EXCEPT !.branches = bs,
                               !.selected = IF old_name # None
                                               /\ old_name \in {bs[j][1] : j \in 1..Len(bs)}
                                            THEN (IndexOf(bs, old_name, 1) + 1) % Len(bs)
                                            ELSE 0]
    IN [new EXCEPT !.calls = Append(st.calls,
            [q |-> q, before |-> [branches |-> st.branches, selected |-> st.selected,
                                  log |-> st.log],
             after |-> [branches |-> new.branches, selected |-> new.selected,
                        log |-> new.log]])]

\* _refresh_branches on the state st = [branches, selected, log, calls]
RefreshBranches(st, q) ==
    LET old_name == IF st.branches # <<>> THEN st.branches[st.selected + 1][1] ELSE None
        listed == list_branches(repo, q)
        new == IF listed.raised
               THEN [st EXCEPT !.log = AppendLog(st.log, LogError)]
               ELSE LET bs == listed.value IN
                    [st EXCEPT !.branches = bs,
                               !.selected = IF old_name # None
                                            THEN IndexOf(bs, old_name, 1) ELSE 0]
    IN [new EXCEPT !.calls = Append(st.calls,
            [q |-> q, before |-> [branches |-> st.branches, selected |-> st.selected,
                                  log |-> st.log],
             after |-> [branches |-> new.branches, selected |-> new.selected,
                        log |-> new.log]])]

----------------------------------------------------------------------------
\* Initial state: the constructor has listed the branches; run() starts the
\* application only when there is at least one.

InitRepos ==
    {[names |-> AllNames, head |-> "main"],
     [names |-> SubSeq(AllNames, 1, 2), head |-> Unborn]}

InitState ==
    /\ repo \in InitRepos
    /\ quit_on_switch \in BOOLEAN
    /\ branches = list_branches(repo, "ok").value
    /\ selected = 0
    /\ processing = FALSE
    /\ proc = NoProc
    /\ status = StatusInitial
    /\ awaiting_force_branch = None
    /\ log = <<>>
    /\ focus = "list"
    /\ exited = FALSE
    /\ tasks = <<>>
    /\ sends = <<>>
    /\ refreshed = <<>>

Init == InitState /\ budget = MaxBudget

----------------------------------------------------------------------------
\* Filters of the key bindings

is_input_focused == focus = "input"
is_force_prompt == awaiting_force_branch # None

NewTask(args, on_success, on_failure, refresh) ==
    [args |-> args, on_success |-> on_success, on_failure |-> on_failure,
     refresh |-> refresh, pc |-> "spawn", buf |-> <<>>, produced |-> <<>>,
     eof |-> FALSE, exited |-> FALSE, code |-> 0, stdin |-> <<>>]

\* _run_git, called with the log text lg
RunGit(lg, args, on_success, on_failure, refresh) ==
    /\ processing' = TRUE
    /\ status' = StatusRunning(args)
    /\ log' = AppendLog(lg, LogCmd(args))
    /\ focus' = "input"
    /\ tasks' = Append(tasks, NewTask(args, on_success, on_failure, refresh))

Running == ~exited

\* the size of the session so far
RECURSIVE TotalOut(_)
TotalOut(ts) == IF ts = <<>> THEN 0 ELSE Len(Head(ts).produced) + TotalOut(Tail(ts))
NumInputs == Cardinality({j \in 1..Len(log) : log[j].k = ">"})
NumFailures == Cardinality({j \in 1..Len(log) : log[j].k = "[error]"})
Spent == 2 * Len(tasks) + TotalOut(tasks) + NumInputs + NumFailures
Within(cost) == Spent + cost <= budget
CanStart == Within(2)

\* up / k stopping at the first branch
KeyUp_Clamp ==
    /\ Running /\ ~is_input_focused
    /\ selected' = IF branches = <<>> \/ selected = 0 THEN selected
                   ELSE selected - 1
    /\ refreshed' = <<>>
    /\ UNCHANGED <<branches, processing, proc, status, awaiting_force_branch, log,
                   focus, quit_on_switch, exited, tasks, sends, repo, budget>>

\* up / k
KeyUp ==
    /\ Running /\ ~is_input_focused
    /\ selected' = IF branches = <<>> THEN selected
                   ELSE (selected - 1) % Len(branches)
    /\ refreshed' = <<>>
    /\ UNCHANGED <<branches, processing, proc, status, awaiting_force_branch, log,
                   focus, quit_on_switch, exited, tasks, sends, repo, budget>>

\* down / j running past the last branch
KeyDown_NoWrap ==
    /\ Running /\ ~is_input_focused
    /\ selected' = IF branches = <<>> THEN selected ELSE selected + 1
    /\ refreshed' = <<>>
    /\ UNCHANGED <<branches, processing, proc, status, awaiting_force_branch, log,
                   focus, quit_on_switch, exited, tasks, sends, repo, budget>>

\* down / j
KeyDown ==
    /\ Running /\ ~is_input_focused
    /\ selected' = IF branches = <<>> THEN selected
                   ELSE (selected + 1) % Len(branches)
    /\ refreshed' = <<>>
    /\ UNCHANGED <<branches, processing, proc, status, awaiting_force_branch, log,
                   focus, quit_on_switch, exited, tasks, sends, repo, budget>>

\* the switch handler asking for the refresh in both configurations
KeyEnterSwitch_AlwaysRefresh ==
    /\ Running /\ ~is_input_focused /\ ~is_force_prompt
    /\ refreshed' = <<>>
    /\ IF processing \/ branches = <<>>
       THEN UNCHANGED <<processing, status, log, focus, tasks>>
       ELSE CanStart /\ RunGit(log, SwitchArgs(branches[selected + 1][1]),
                               IF quit_on_switch THEN "exit" ELSE "after_switch",
                               "none", TRUE)
    /\ UNCHANGED <<branches, selected, proc, awaiting_force_branch, quit_on_switch,
                   exited, sends, repo, budget>>

\* enter, list focused and no force prompt: the switch handler
KeyEnterSwitch ==
    /\ Running /\ ~is_input_focused /\ ~is_force_prompt
    /\ refreshed' = <<>>
    /\ IF processing \/ branches = <<>>
       THEN UNCHANGED <<processing, status, log, focus, tasks>>
       ELSE CanStart /\ RunGit(log, SwitchArgs(branches[selected + 1][1]),
                   IF quit_on_switch THEN "exit" ELSE "after_switch",
                   "none", ~quit_on_switch)
    /\ UNCHANGED <<branches, selected, proc, awaiting_force_branch, quit_on_switch,
                   exited, sends, repo, budget>>

\* delete, list focused
KeyDelete ==
    /\ Running /\ ~is_input_focused
    /\ refreshed' = <<>>
    /\ IF processing \/ branches = <<>>
       THEN UNCHANGED <<processing, status, log, focus, tasks>>
       ELSE CanStart /\ RunGit(log, DeleteArgs(branches[selected + 1][1]),
                   "refresh", "force", TRUE)
    /\ UNCHANGED <<branches, selected, proc, awaiting_force_branch, quit_on_switch,
                   exited, sends, repo, budget>>

\* enter, input focused and no force prompt: submit the input line
KeyEnterInput(text) ==
    /\ Running /\ is_input_focused /\ ~is_force_prompt
    /\ refreshed' = <<>>
    /\ IF ~processing \/ proc = NoProc
       THEN UNCHANGED <<sends, log>>
       ELSE /\ Within(1)
            /\ sends' = Append(sends, text)
            /\ log' = AppendLog(log, LogInput(text))
    /\ UNCHANGED <<branches, selected, processing, proc, status,
                   awaiting_force_branch, focus, quit_on_switch, exited, tasks, repo, budget>>

\* y deleting the branch under the cursor instead of the pending one
KeyY_Selected ==
    /\ Running /\ is_force_prompt
    /\ CanStart
    /\ refreshed' = <<>>
    /\ LET branch == IF branches = <<>> THEN awaiting_force_branch
                     ELSE branches[selected + 1][1] IN
         /\ awaiting_force_branch' = None
         /\ RunGit(AppendLog(log, LogForce(branch)), ForceArgs(branch),
                   "refresh", "none", TRUE)
    /\ UNCHANGED <<branches, selected, proc, quit_on_switch, exited, sends, repo, budget>>

\* y, force prompt
KeyY ==
    /\ Running /\ is_force_prompt
    /\ CanStart
    /\ refreshed' = <<>>
    /\ LET branch == awaiting_force_branch IN
         /\ awaiting_force_branch' = None
         /\ RunGit(AppendLog(log, LogForce(branch)), ForceArgs(branch),
                   "refresh", "none", TRUE)
    /\ UNCHANGED <<branches, selected, proc, quit_on_switch, exited, sends, repo, budget>>

\* n / enter, force prompt
KeyCancel ==
    /\ Running /\ is_force_prompt
    /\ awaiting_force_branch' = None
    /\ status' = StatusCanceled
    /\ refreshed' = <<>>
    /\ UNCHANGED <<branches, selected, processing, proc, log, focus, quit_on_switch,
                   exited, tasks, sends, repo, budget>>

\* c-c / escape
KeyQuit ==
    /\ Running
    /\ exited' = TRUE
    /\ refreshed' = <<>>
    /\ UNCHANGED <<branches, selected, processing, proc, status,
                   awaiting_force_branch, log, focus, quit_on_switch, tasks, sends, repo, budget>>

----------------------------------------------------------------------------
\* The child process of task i and the repository it acts on

\* what git requires of the repository to exit 0
CanSucceed(args, r) ==
    IF IsSwitch(args) THEN Target(args) \in SeqSet(r.names)
    ELSE Target(args) \in SeqSet(r.names) /\ Target(args) # r.head

\* the repository after the command exited 0
Effect(args, r) ==
    IF IsSwitch(args) THEN [r EXCEPT !.head = Target(args)]
    ELSE [r EXCEPT !.names = Remove(r.names, Target(args))]

Spawned(i) == tasks[i].pc \in {"read", "wait"}

\* the child writes one more character to its output
ChildWrite(i, c) ==
    /\ Running /\ Spawned(i) /\ ~tasks[i].eof
    /\ Within(1)
    /\ tasks' = [tasks EXCEPT ![i].buf = Append(@, c), ![i].produced = Append(@, c)]
    /\ refreshed' = <<>>
    /\ UNCHANGED <<branches, selected, processing, proc, status,
                   awaiting_force_branch, log, focus, quit_on_switch, exited, sends, repo, budget>>

\* the write end of the child's output is closed
ChildClose(i) ==
    /\ Running /\ Spawned(i) /\ ~tasks[i].eof
    /\ tasks' = [tasks EXCEPT ![i].eof = TRUE]
    /\ refreshed' = <<>>
    /\ UNCHANGED <<branches, selected, processing, proc, status,
                   awaiting_force_branch, log, focus, quit_on_switch, exited, sends, repo, budget>>

\* the child exits with code c
ChildExit(i, c) ==
    /\ Running /\ Spawned(i) /\ ~tasks[i].exited
    /\ c = 0 => CanSucceed(tasks[i].args, repo)
    /\ tasks' = [tasks EXCEPT ![i].exited = TRUE, ![i].code = c]
    /\ repo' = IF c = 0 THEN Effect(tasks[i].args, repo) ELSE repo
    /\ refreshed' = <<>>
    /\ UNCHANGED <<branches, selected, processing, proc, status,
                   awaiting_force_branch, log, focus, quit_on_switch, exited, sends, budget>>

----------------------------------------------------------------------------
\* _run_git_async, task i

\* create_subprocess_exec returns the process
Spawn(i) ==
    /\ Running /\ tasks[i].pc = "spawn"
    /\ tasks' = [tasks EXCEPT ![i].pc = "read"]
    /\ proc' = i
    /\ refreshed' = <<>>
    /\ UNCHANGED <<branches, selected, processing, status, awaiting_force_branch,
                   log, focus, quit_on_switch, exited, sends, repo, budget>>

\* create_subprocess_exec raises: the task ends with the exception
SpawnFail(i) ==
    /\ Running /\ tasks[i].pc = "spawn"
    /\ tasks' = [tasks EXCEPT ![i].pc = "failed"]
    /\ refreshed' = <<>>
    /\ UNCHANGED <<branches, selected, processing, proc, status,
                   awaiting_force_branch, log, focus, quit_on_switch, exited, sends, repo, budget>>

\* position of the first newline in s, 0 when there is none
RECURSIVE FirstNL(_, _)
FirstNL(s, j) ==
    IF j > Len(s) THEN 0
    ELSE IF s[j] = NL THEN j
    ELSE FirstNL(s, j + 1)

\* line.rstrip("\n")
RECURSIVE Rstrip(_)
Rstrip(s) ==
    IF s # <<>> /\ s[Len(s)] = NL THEN Rstrip(SubSeq(s, 1, Len(s) - 1)) ELSE s

\* read() in place of readline(): all that is buffered
ReadLineResult_WholeBuffer(buf) == buf

\* StreamReader.readline on buffer buf: the line returned, <<>> at end of stream
ReadLineResult(buf) ==
    IF FirstNL(buf, 1) > 0 THEN SubSeq(buf, 1, FirstNL(buf, 1)) ELSE buf

\* a read that does not wait for the newline or the end of the stream
ReadLineReady_NoWait(t) == TRUE

\* readline can return: a whole line is buffered, or the stream has ended
ReadLineReady(t) == FirstNL(t.buf, 1) > 0 \/ t.eof

\* one iteration of the reading loop
ReadLine(i) ==
    /\ Running /\ tasks[i].pc = "read"
    /\ ReadLineReady(tasks[i])
    /\ LET line == ReadLineResult(tasks[i].buf) IN
         IF line = <<>>
         THEN /\ tasks' = [tasks EXCEPT ![i].pc = "wait"]
              /\ UNCHANGED log
         ELSE /\ tasks' = [tasks EXCEPT
                    ![i].buf = SubSeq(@, Len(line) + 1, Len(@))]
              /\ log' = AppendLog(log, LogOut(i, Rstrip(line)))
    /\ refreshed' = <<>>
    /\ UNCHANGED <<branches, selected, processing, proc, status,
                   awaiting_force_branch, focus, quit_on_switch, exited, sends, repo, budget>>

\* the state after the on_success callback, from the state st
OnSuccess(t, st, q) ==
    IF t.on_success = "exit" THEN [st EXCEPT !.exited = TRUE]
    ELSE IF t.on_success = "after_switch"
         THEN [RefreshBranches(st, q) EXCEPT !.status = StatusSwitched]
    ELSE IF t.on_success = "refresh" THEN RefreshBranches(st, q)
    ELSE [st EXCEPT !.status = StatusDone]

\* on_failure never called
OnFailure_Ignored(t, st) == st

\* the state after the on_failure callback, from the state st
OnFailure(t, st) ==
    IF t.on_failure = "force"
    THEN [st EXCEPT !.awaiting_force_branch = Target(t.args),
                    !.status = StatusDeleteFailed(Target(t.args))]
    ELSE st

\* proc.wait() has returned: the code after the reading loop
Completion(t, st, q1, q2) ==
    IF t.code = 0
    THEN OnSuccess(t, IF t.refresh THEN RefreshBranches(st, q1) ELSE st, q2)
    ELSE OnFailure(t, [st EXCEPT !.status = StatusExited(t.code)])

Complete(i, q1, q2) ==
    /\ Running /\ tasks[i].pc = "wait" /\ tasks[i].exited
    /\ Within((IF q1 = "fail" THEN 1 ELSE 0) + (IF q2 = "fail" THEN 1 ELSE 0))
    /\ LET st == [branches |-> branches, selected |-> selected, log |-> log,
                  status |-> status, awaiting_force_branch |-> awaiting_force_branch,
                  exited |-> exited, calls |-> <<>>]
           new == Completion(tasks[i], st, q1, q2)
       IN /\ branches' = new.branches
          /\ selected' = new.selected
          /\ log' = new.log
          /\ status' = new.status
          /\ awaiting_force_branch' = new.awaiting_force_branch
          /\ exited' = new.exited
          /\ refreshed' = new.calls
    /\ processing' = FALSE
    /\ proc' = NoProc
    /\ focus' = "list"
    /\ tasks' = [tasks EXCEPT ![i].pc = "done"]
    /\ UNCHANGED <<quit_on_switch, sends, repo, budget>>

----------------------------------------------------------------------------
\* _send_to_proc: the oldest scheduled task runs; stdin of a task holds the
\* payloads handed to proc.stdin.write. The task looks at processing and proc
\* when it runs, not when the line was submitted.

SendToProc ==
    /\ Running /\ sends # <<>>
    /\ sends' = Tail(sends)
    /\ tasks' = IF ~processing \/ proc = NoProc THEN tasks
                ELSE [tasks EXCEPT ![proc].stdin = Append(@, <<Head(sends), NL>>)]
    /\ refreshed' = <<>>
    /\ UNCHANGED <<branches, selected, processing, proc, status,
                   awaiting_force_branch, log, focus, quit_on_switch, exited, repo, budget>>

----------------------------------------------------------------------------
Next ==
    \/ KeyUp
    \/ KeyDown
    \/ KeyEnterSwitch
    \/ KeyDelete
    \/ \E text \in Texts : KeyEnterInput(text)
    \/ KeyY
    \/ KeyCancel
    \/ KeyQuit
    \/ \E i \in 1..Len(tasks) : Spawn(i)
    \/ \E i \in 1..Len(tasks) : SpawnFail(i)
    \/ \E i \in 1..Len(tasks), c \in Chars : ChildWrite(i, c)
    \/ \E i \in 1..Len(tasks) : ChildClose(i)
    \/ \E i \in 1..Len(tasks), c \in {0, 1} : ChildExit(i, c)
    \/ \E i \in 1..Len(tasks) : ReadLine(i)
    \/ \E i \in 1..Len(tasks), q1 \in Queries, q2 \in Queries : Complete(i, q1, q2)
    \/ SendToProc

Spec == Init /\ [][Next]_vars

\* Sessions of up to four commands in which the child processes print nothing,
\* no line is submitted in the input region and every enumeration succeeds.
InitCommands == InitState /\ budget = MaxCommandsBudget

NextCommands ==
    \/ KeyUp
    \/ KeyDown
    \/ KeyEnterSwitch
    \/ KeyDelete
    \/ KeyY
    \/ KeyCancel
    \/ KeyQuit
    \/ \E i \in 1..Len(tasks) : Spawn(i)
    \/ \E i \in 1..Len(tasks) : SpawnFail(i)
    \/ \E i \in 1..Len(tasks) : ChildClose(i)
    \/ \E i \in 1..Len(tasks), c \in {0, 1} : ChildExit(i, c)
    \/ \E i \in 1..Len(tasks) : ReadLine(i)
    \/ \E i \in 1..Len(tasks) : Complete(i, "ok", "ok")

SpecCommands == InitCommands /\ [][NextCommands]_vars

----------------------------------------------------------------------------
\* Properties

Active(i) == tasks[i].pc \in {"spawn", "read", "wait"}
Starts(i) == i > Len(tasks)
Completes(i) == i <= Len(tasks) /\ tasks[i].pc = "wait" /\ tasks'[i].pc = "done"
FailedDelete(b) ==
    \E j \in 1..Len(tasks) :
        tasks[j].pc = "done" /\ tasks[j].args = DeleteArgs(b) /\ tasks[j].code # 0

\* C1: at most one supervised child process is running or being spawned in
\* every reachable state.
C1_AtMostOneActive ==
    Cardinality({i \in 1..Len(tasks) : Active(i)}) <= 1

\* C2: a command branch -D X is started only by the y handler, with X the
\* pending branch name; the pending name X is set only by the completion of a
\* command branch -d X that exited non-zero, and is otherwise only cleared (by
\* y or by the cancel handler), so cursor movement does not change it.
C2_ForceOnlyConfirmed ==
    [][/\ \A i \in 1..Len(tasks') :
            Starts(i) /\ IsForce(tasks'[i].args) =>
                /\ KeyY
                /\ tasks'[i].args = ForceArgs(awaiting_force_branch)
                /\ FailedDelete(awaiting_force_branch)
       /\ awaiting_force_branch' # awaiting_force_branch =>
            IF awaiting_force_branch' = None THEN KeyY \/ KeyCancel
            ELSE \E i \in 1..Len(tasks) :
                    /\ Completes(i)
                    /\ tasks[i].args = DeleteArgs(awaiting_force_branch')
                    /\ tasks[i].code # 0]_vars

\* a force delete has just been started for a branch that is not under the cursor
C2_Witness ==
    \E i \in 1..Len(tasks) :
        /\ tasks[i].pc = "spawn" /\ IsForce(tasks[i].args)
        /\ branches # <<>> /\ branches[selected + 1][1] # Target(tasks[i].args)

\* C3: a command branch -d X is started for the branch X under the cursor;
\* when it exits non-zero the processing flag is cleared, the pending force
\* delete name becomes X and the branch list and the cursor are unchanged.
C3_FailedDeleteConfirms ==
    [][\A i \in 1..Len(tasks') :
        /\ Starts(i) /\ IsDelete(tasks'[i].args) =>
              KeyDelete /\ tasks'[i].args = DeleteArgs(branches[selected + 1][1])
        /\ Completes(i) /\ IsDelete(tasks[i].args) /\ tasks[i].code # 0 =>
              /\ ~processing'
              /\ awaiting_force_branch' = Target(tasks[i].args)
              /\ status' = StatusDeleteFailed(Target(tasks[i].args))
              /\ branches' = branches /\ selected' = selected]_vars

\* a delete has failed and the controller asks for confirmation
C3_Witness ==
    /\ ~processing /\ awaiting_force_branch # None
    /\ status = StatusDeleteFailed(awaiting_force_branch)
    /\ FailedDelete(awaiting_force_branch)
    /\ refreshed = <<>> /\ focus = "list"

\* C4: when a command switch X exits non-zero the controller shows the failure
\* status and is in Navigating (not processing, no pending force delete); the
\* branch list is unchanged, the application keeps running and no command is
\* started.
C4_FailedSwitchNavigates ==
    [][\A i \in 1..Len(tasks) :
        Completes(i) /\ IsSwitch(tasks[i].args) /\ tasks[i].code # 0 =>
            /\ status' = StatusExited(tasks[i].code)
            /\ ~processing' /\ awaiting_force_branch' = None
            /\ branches' = branches /\ selected' = selected /\ refreshed' = <<>>
            /\ ~exited'
            /\ Len(tasks') = Len(tasks)]_vars

\* C5: in ConfirmingForceDelete every key other than y (up, down, delete, n,
\* enter) cancels: the pending name is cleared, the status is the canceled
\* status and no command is started.
C5_OtherKeysCancel ==
    [][is_force_prompt /\ (KeyUp \/ KeyDown \/ KeyDelete \/ KeyCancel) =>
        /\ awaiting_force_branch' = None
        /\ status' = StatusCanceled
        /\ tasks' = tasks]_vars

SwitchSucceeds(i) == Completes(i) /\ IsSwitch(tasks[i].args) /\ tasks[i].code = 0

\* the branch list bs shows the repository r
Shows(bs, r) ==
    /\ Len(bs) = Len(r.names)
    /\ \A j \in 1..Len(bs) : bs[j] = <<r.names[j], r.names[j] = r.head>>

C7_DeleteSuccessStatus ==
    [][\A i \in 1..Len(tasks) :
        /\ Completes(i) /\ tasks[i].code = 0
        /\ IsDelete(tasks[i].args) \/ IsForce(tasks[i].args)
        => /\ refreshed' # <<>>
           /\ ~processing'
           /\ status'.k # "Running"]_vars

\* the lines of the text s, as str.splitlines
RECURSIVE SplitLines(_)
SplitLines(s) ==
    IF s = <<>> THEN <<>>
    ELSE IF \E j \in 1..Len(s) : s[j] = NL
         THEN LET k == CHOOSE j \in 1..Len(s) :
                         s[j] = NL /\ \A m \in 1..(j - 1) : s[m] # NL
              IN <<SubSeq(s, 1, k - 1)>> \o SplitLines(SubSeq(s, k + 1, Len(s)))
         ELSE <<s>>

\* the lines of the log that are output of task i
RECURSIVE OutLines(_, _)
OutLines(lg, i) ==
    IF lg = <<>> THEN <<>>
    ELSE IF Head(lg).k = "out" /\ Head(lg).id = i
         THEN <<Head(lg).text>> \o OutLines(Tail(lg), i)
         ELSE OutLines(Tail(lg), i)

\* the output of task i that the reading loop has taken from the buffer
Consumed(t) == SubSeq(t.produced, 1, Len(t.produced) - Len(t.buf))

\* C8: the output lines of each command are in the log in the order the child
\* wrote them, each once: the log lines of a command are the lines of the
\* output read so far, what is not yet read is still buffered, and once the
\* reading loop has ended they are the lines of the whole output.
C8_OutputInOrder ==
    \A i \in 1..Len(tasks) :
        /\ tasks[i].produced = Consumed(tasks[i]) \o tasks[i].buf
        /\ OutLines(log, i) = SplitLines(Consumed(tasks[i]))
        /\ tasks[i].pc \in {"wait", "done"} =>
              OutLines(log, i) = SplitLines(tasks[i].produced)

\* two output lines of a finished command are in the log with an echoed input
\* line between them
C8_Witness ==
    \E i \in 1..Len(tasks) :
        /\ tasks[i].pc = "done"
        /\ \E j1, j2, j3 \in 1..Len(log) :
            /\ j1 < j2 /\ j2 < j3
            /\ log[j1].k = "out" /\ log[j1].id = i
            /\ log[j2].k = ">"
            /\ log[j3].k = "out" /\ log[j3].id = i /\ log[j3].text # <<>>

\* a step with an effect of the code after the reading loop
PostCompletion ==
    \/ processing /\ ~processing'
    \/ refreshed' # <<>>
    \/ awaiting_force_branch' # awaiting_force_branch /\ awaiting_force_branch' # None
    \/ exited' /\ ~exited /\ ~KeyQuit
    \/ \E i \in 1..Len(tasks) : Completes(i)

\* C9: the code after the reading loop (clearing the processing flag, the
\* refreshes, the force prompt, the exit) runs only for a task whose output
\* stream has ended and whose child has exited, with every line of its output
\* in the log.
C9_CompletionAfterDrain ==
    [][PostCompletion =>
        \E i \in 1..Len(tasks) :
            /\ Completes(i)
            /\ tasks[i].eof /\ tasks[i].exited /\ tasks[i].buf = <<>>
            /\ OutLines(log, i) = SplitLines(tasks[i].produced)
            /\ OutLines(log', i) = OutLines(log, i)]_vars

\* a command that wrote output has completed and the branch list was refreshed
C9_Witness ==
    /\ refreshed # <<>>
    /\ \E i \in 1..Len(tasks) :
        /\ tasks[i].pc = "done" /\ tasks[i].produced # <<>>
        /\ OutLines(log, i) # <<>>

\* C10: a refresh whose enumeration fails leaves the branch list and the
\* cursor as they were and appends one [error] line to the log; the step that
\* made the refresh calls ends with the state the last call left, the
\* application running and the list focused.
C10_FailedRefreshKeepsState ==
    \A k \in 1..Len(refreshed) :
        LET c == refreshed[k] IN
        /\ c.q = "fail" =>
              /\ c.after.branches = c.before.branches
              /\ c.after.selected = c.before.selected
              /\ c.after.log = Append(c.before.log, LogError)
        /\ k > 1 => c.before = refreshed[k - 1].after
        /\ k = Len(refreshed) =>
              /\ branches = c.after.branches /\ selected = c.after.selected
              /\ log = c.after.log
              /\ ~exited /\ ~processing /\ focus = "list"

\* a refresh has failed with the cursor below the first branch
C10_Witness ==
    \E k \in 1..Len(refreshed) :
        /\ refreshed[k].q = "fail"
        /\ refreshed[k].before.selected # 0
        /\ selected # 0

\* the name under the cursor of a refresh record's side, None for an empty list
SelectedName(side) ==
    IF side.branches = <<>> THEN None ELSE side.branches[side.selected + 1][1]

\* the positions (0-based) at which a branch list shows the name
PositionsOf(bs, name) == {j - 1 : j \in {n \in 1..Len(bs) : bs[n][1] = name}}

\* C11: after a successful refresh the cursor is the index in the new list of
\* the name that was selected before the refresh when the new list still has
\* that name, and 0 otherwise.
C11_RefreshFollowsName ==
    \A k \in 1..Len(refreshed) :
        LET c == refreshed[k]
            at == PositionsOf(c.after.branches, SelectedName(c.before))
        IN c.q = "ok" =>
              IF at # {} THEN c.after.selected \in at /\ Cardinality(at) = 1
              ELSE c.after.selected = 0

\* a successful refresh has moved the cursor with its branch to another
\* index that is not the first
C11_Witness ==
    \E k \in 1..Len(refreshed) :
        /\ refreshed[k].q = "ok"
        /\ refreshed[k].after.selected # 0
        /\ refreshed[k].after.selected # refreshed[k].before.selected
        /\ SelectedName(refreshed[k].after) = SelectedName(refreshed[k].before)
        /\ selected = refreshed[k].after.selected

\* C12: refresh is idempotent: of two refreshes made in succession against
\* the same repository (the two calls of one completion step), both
\* successful, the second leaves the branch list and the cursor the first left.
C12_RefreshIdempotent ==
    \A k \in 2..Len(refreshed) :
        (refreshed[k - 1].q = "ok" /\ refreshed[k].q = "ok") =>
            /\ refreshed[k].before.branches = refreshed[k - 1].after.branches
            /\ refreshed[k].before.selected = refreshed[k - 1].after.selected
            /\ refreshed[k].after.branches = refreshed[k - 1].after.branches
            /\ refreshed[k].after.selected = refreshed[k - 1].after.selected

\* a completion has refreshed twice with success, the first refresh changing
\* the list and leaving the cursor below the first branch
C12_Witness ==
    /\ Len(refreshed) = 2
    /\ refreshed[1].q = "ok" /\ refreshed[2].q = "ok"
    /\ refreshed[1].after.branches # refreshed[1].before.branches
    /\ refreshed[1].after.selected # 0
    /\ branches = refreshed[2].after.branches /\ selected = refreshed[2].after.selected

\* what a cursor movement leaves alone: everything of the program but the cursor
MovementFrame ==
    UNCHANGED <<branches, processing, proc, status, awaiting_force_branch, log,
                focus, quit_on_switch, exited, tasks, sends, repo>>

\* C13: on a list of N >= 1 branches up at index 0 gives N - 1 and otherwise
\* one less, down at index N - 1 gives 0 and otherwise one more, and a
\* movement changes nothing but the cursor.
C13_CircularCursor ==
    [][branches # <<>> =>
          /\ KeyUp => /\ selected' = IF selected = 0 THEN Len(branches) - 1
                                     ELSE selected - 1
                      /\ MovementFrame
          /\ KeyDown => /\ selected' = IF selected = Len(branches) - 1 THEN 0
                                       ELSE selected + 1
                        /\ MovementFrame]_vars

\* before any command the cursor is on the last of three branches: up has
\* wrapped from the first, or down has stepped twice
C13_Witness ==
    /\ tasks = <<>> /\ log = <<>>
    /\ Len(branches) = 3 /\ selected = Len(branches) - 1

\* the enter key: the list handler, the input handler or, with a name pending,
\* the cancel handler
KeyEnter == KeyEnterSwitch \/ KeyCancel \/ \E text \in Texts : KeyEnterInput(text)

\* C14: with an empty branch list the keys up, down, enter and delete leave
\* the cursor, the list, the mode, the log and the process handle unchanged
\* and start no command.
C14_EmptyListNoOps ==
    [][(branches = <<>> /\ (KeyUp \/ KeyDown \/ KeyEnter \/ KeyDelete)) =>
          UNCHANGED <<selected, branches, processing, awaiting_force_branch, log,
                      proc, tasks>>]_vars

\* the payloads written to the input channels of the commands so far
RECURSIVE TotalWritten(_)
TotalWritten(ts) == IF ts = <<>> THEN 0 ELSE Len(Head(ts).stdin) + TotalWritten(Tail(ts))

\* C15: every line echoed to the log as "> text" is written to the input
\* channel of a command: the echoed lines are as many as the lines written
\* and the lines whose write is still scheduled.
C15_EchoedLinesWritten == NumInputs = TotalWritten(tasks) + Len(sends)

\* C16: the controller is Busy exactly when a supervised process handle is
\* set, in every reachable state.
C16_BusyIffHandle == processing <=> proc # NoProc

\* C17: the controller is never Busy with a force-delete confirmation pending.
C17_BusyExcludesConfirming == ~(processing /\ awaiting_force_branch # None)

\* C18: on a non-empty branch list the cursor is an index of the list, in
\* every reachable state and after each refresh call of a completion.
C18_CursorInRange ==
    /\ branches # <<>> => selected \in 0..(Len(branches) - 1)
    /\ \A k \in 1..Len(refreshed) :
          refreshed[k].after.branches # <<>> =>
              refreshed[k].after.selected \in 0..(Len(refreshed[k].after.branches) - 1)

\* a refresh has found a shorter list with the cursor on the last branch of
\* the old one, in a step that also had a failing refresh
C18_Witness ==
    /\ branches # <<>>
    /\ \E k \in 1..Len(refreshed) :
        /\ refreshed[k].q = "ok"
        /\ Len(refreshed[k].after.branches) < Len(refreshed[k].before.branches)
        /\ refreshed[k].before.selected = Len(refreshed[k].before.branches) - 1
    /\ \E k \in 1..Len(refreshed) : refreshed[k].q = "fail"

\* C19: the log is append-only: in every step the log before the step is a
\* prefix of the log after it.
C19_LogAppendOnly ==
    [][/\ Len(log) <= Len(log')
       /\ SubSeq(log', 1, Len(log)) = log]_vars

\* a confirmation is pending with the log of the failed delete kept: its
\* command line first, then its output
C19_Witness ==
    /\ awaiting_force_branch # None
    /\ Len(log) >= 2
    /\ log[1] = LogCmd(DeleteArgs(awaiting_force_branch))
    /\ log[2].k = "out"

\* C20: the controller never stays Busy with no process behind it: while it
\* is Busy and running, the task of some command is still about to spawn its
\* child, reading its output or waiting for its exit, so that its completion
\* can end the Busy state.
C20_BusyHasTask ==
    (processing /\ ~exited) => \E i \in 1..Len(tasks) : Active(i)

====
